---- MODULE Spec2Model ----
(***************************************************************************)
(* Model of src/src/dataset.rs: the classification dataset builder         *)
(* (ClassifierDataset::build_dataset and what it calls), the line iterator *)
(* ClassifierIter and the tagging iterator TaggingIter.                    *)
(*                                                                         *)
(* A string is a sequence of one-character strings.  A file is a sequence  *)
(* of line slots; a slot is either a raw line (its bytes, terminator       *)
(* included) or a line whose read fails (e.g. bytes that are not UTF-8),   *)
(* for which BufRead::read_line returns Err.                               *)
(***************************************************************************)
EXTENDS Integers, Sequences, FiniteSets, TLC

\* ------------------------------------------------------------------ bounds
MaxTrainLines == 2
MaxEvalLines == 1
MaxClasses == 1
MaxN == 2
MaxText == 3
MaxEncClasses == 2
MaxLineLen == 4
MaxIterLines == 1
MaxTagLines == 3
MaxCalls == 3

\* ------------------------------------------------------------ std helpers
Range(s) == { s[i] : i \in 1..Len(s) }

SeqsUpTo(S, n) == UNION { [1..k -> S] : k \in 0..n }

OkLine(l) == [ok |-> TRUE, line |-> l]
ErrLine == [ok |-> FALSE, line |-> <<>>]

None == [tag |-> "None"]
Some(v) == [tag |-> "Some", val |-> v]
Panic == [tag |-> "Panic"]

\* char::is_whitespace, restricted to the characters the model uses
IsWhitespace(c) == c \in {" ", "\t", "\n", "\r"}
\* a variant that strips the line terminator only
trim_end_newline_only(s) ==
    IF s # <<>> /\ s[Len(s)] = "\n" THEN SubSeq(s, 1, Len(s) - 1) ELSE s

\* str::trim_end: removes every trailing whitespace character
RECURSIVE trim_end(_)
trim_end(s) ==
    IF s = <<>> THEN s
    ELSE IF IsWhitespace(s[Len(s)]) THEN trim_end(SubSeq(s, 1, Len(s) - 1))
    ELSE s

\* str::split_once(delim): splits at the first occurrence of delim
split_once(s, delim) ==
    IF \E i \in 1..Len(s) : s[i] = delim
    THEN LET i == CHOOSE k \in 1..Len(s) :
                      s[k] = delim /\ \A j \in 1..(k - 1) : s[j] # delim
         IN Some([front |-> SubSeq(s, 1, i - 1), back |-> SubSeq(s, i + 1, Len(s))])
    ELSE None

\* BufRead::read_line on a reader [file, pos]: Ok(0) at end of file, Ok(len)
\* with the raw line, or Err; the bytes of the slot are consumed either way
read_line(reader) ==
    IF reader.pos >= Len(reader.file)
    THEN [res |-> "Ok", len |-> 0, line |-> <<>>, reader |-> reader]
    ELSE LET slot == reader.file[reader.pos + 1]
             next == [reader EXCEPT !.pos = @ + 1]
         IN IF slot.ok
            THEN [res |-> "Ok", len |-> Len(slot.line), line |-> slot.line, reader |-> next]
            ELSE [res |-> "Err", len |-> 0, line |-> <<>>, reader |-> next]

Digit(c) == CASE c = "0" -> 0 [] c = "1" -> 1 [] c = "2" -> 2 [] c = "3" -> 3
              [] c = "4" -> 4 [] c = "5" -> 5 [] c = "6" -> 6 [] c = "7" -> 7
              [] c = "8" -> 8 [] c = "9" -> 9 [] OTHER -> -1

RECURSIVE DecimalValue(_)
DecimalValue(ds) ==
    IF ds = <<>> THEN 0
    ELSE 10 * DecimalValue(SubSeq(ds, 1, Len(ds) - 1)) + Digit(ds[Len(ds)])

\* str::parse::<usize>: an optional leading '+', then one or more decimal
\* digits; anything else is an error.  (Labels of the model have at most
\* three characters, far below the 20 digits at which usize overflows.)
parse_usize(s) ==
    LET digits == IF Len(s) > 1 /\ s[1] = "+" THEN Tail(s) ELSE s
    IN IF digits # <<>> /\ \A i \in 1..Len(digits) : Digit(digits[i]) >= 0
       THEN [tag |-> "Ok", val |-> DecimalValue(digits)]
       ELSE [tag |-> "Err"]

\* ------------------------------------------------------- ClassifierSample
ClassifierSample_from(content) ==
    LET sp == split_once(content, "\t")
    IN IF sp.tag = "Some"
       THEN Some([text |-> sp.val.front, label |-> sp.val.back])
       ELSE Panic
\* a variant that propagates a read error as a failure of the build
ClassifierIter_next_propagate(reader) ==
    LET r == read_line(reader)
    IN IF r.res = "Ok"
       THEN IF r.len > 0
            THEN [item |-> ClassifierSample_from(trim_end(r.line)), reader |-> r.reader]
            ELSE [item |-> None, reader |-> r.reader]
       ELSE [item |-> Panic, reader |-> r.reader]

\* --------------------------------------------------------- ClassifierIter
\* One call of next(): [item, reader]; item is Some(sample), None, or Panic
\* when ClassifierSample::from panics on a line without a tab.
ClassifierIter_next(reader) ==
    LET r == read_line(reader)
    IN IF r.res = "Ok"
       THEN IF r.len > 0
            THEN [item |-> ClassifierSample_from(trim_end(r.line)), reader |-> r.reader]
            ELSE [item |-> None, reader |-> r.reader]
       ELSE [item |-> None, reader |-> r.reader]

\* Iterator::collect::<Vec<_>>(): calls next() until it returns None
RECURSIVE collect_from(_, _)
collect_from(reader, acc) ==
    LET n == ClassifierIter_next(reader)
    IN IF n.item.tag = "Some" THEN collect_from(n.reader, Append(acc, n.item.val))
       ELSE IF n.item.tag = "Panic" THEN [panic |-> TRUE, items |-> acc]
       ELSE [panic |-> FALSE, items |-> acc]

collect(file) == collect_from([file |-> file, pos |-> 0], <<>>)
\* a variant whose test split has its own file
ClassifierDataset_new_own_test ==
    [train_file |-> "train.txt", dev_file |-> "dev.txt",
     test_file |-> "test.txt", class_file |-> "class.txt"]

\* ------------------------------------------------------ ClassifierDataset
ClassifierDataset_new ==
    [train_file |-> "train.txt", dev_file |-> "dev.txt",
     test_file |-> "dev.txt", class_file |-> "class.txt"]

\* BufRead::lines(): each line without its "\n" or "\r\n"
strip_newline(l) ==
    IF l # <<>> /\ l[Len(l)] = "\n"
    THEN LET m == SubSeq(l, 1, Len(l) - 1)
         IN IF m # <<>> /\ m[Len(m)] = "\r" THEN SubSeq(m, 1, Len(m) - 1) ELSE m
    ELSE l

\* read_classes: lines().filter_map(|line| line.ok()).collect()
RECURSIVE read_classes(_)
read_classes(file) ==
    IF file = <<>> THEN <<>>
    ELSE IF Head(file).ok
         THEN <<strip_newline(Head(file).line)>> \o read_classes(Tail(file))
         ELSE read_classes(Tail(file))
\* a variant that keeps the first of several pairs with the same key
Class2Id_first(classes) ==
    [c \in Range(classes) |->
        (CHOOSE i \in 1..Len(classes) :
            classes[i] = c /\ \A j \in 1..(i - 1) : classes[j] # c) - 1]

\* enumerate().map(|(i, class)| (class, i)).collect::<HashMap<_, _>>():
\* a later pair with the same key overwrites an earlier one
Class2Id(classes) ==
    [c \in Range(classes) |->
        (CHOOSE i \in 1..Len(classes) :
            classes[i] = c /\ \A j \in (i + 1)..Len(classes) : classes[j] # c) - 1]

RECURSIVE Flatten(_)
Flatten(texts) == IF texts = <<>> THEN <<>> ELSE Head(texts) \o Flatten(Tail(texts))

\* vocab_corpus.iter().map(chars).flatten().enumerate()
\*     .map(|(i, ch)| (ch.to_string(), i + 1)).collect::<BTreeMap<_, _>>()
BuildVocab(vocab_corpus) ==
    LET stream == Flatten(vocab_corpus)
    IN [ch \in Range(stream) |->
          (CHOOSE i \in 1..Len(stream) :
              stream[i] = ch /\ \A j \in (i + 1)..Len(stream) : stream[j] # ch)]

\* s.text.chars().map(|c| *vocab.get(&c.to_string()).unwrap_or(&0)).collect()
WordIds(text, vocab) ==
    [i \in 1..Len(text) |-> IF text[i] \in DOMAIN vocab THEN vocab[text[i]] ELSE 0]
\* a variant that looks the label up in the class index before parsing it
LabelId_class_first(label, class2id) ==
    LET p == parse_usize(label)
    IN IF label \in DOMAIN class2id THEN [tag |-> "Ok", val |-> class2id[label]]
       ELSE IF p.tag = "Ok" THEN p
       ELSE [tag |-> "Panic"]

\* a variant that falls back to label 0 instead of failing
LabelId_default(label, class2id) ==
    LET p == parse_usize(label)
    IN IF p.tag = "Ok" THEN p
       ELSE IF label \in DOMAIN class2id THEN [tag |-> "Ok", val |-> class2id[label]]
       ELSE [tag |-> "Ok", val |-> 0]

\* s.label.parse::<usize>().unwrap_or_else(|e| *class2id.get(&s.label).expect(..))
LabelId(label, class2id) ==
    LET p == parse_usize(label)
    IN IF p.tag = "Ok" THEN p
       ELSE IF label \in DOMAIN class2id THEN [tag |-> "Ok", val |-> class2id[label]]
       ELSE [tag |-> "Panic"]
\* a variant that truncates to the last n IDs
ClassifierRecord_new_suffix(word_ids, label_id, n) ==
    LET len == Len(word_ids)
        fitted == IF len < n THEN word_ids \o [i \in 1..(n - len) |-> 0]
                  ELSE IF len > n THEN SubSeq(word_ids, len - n + 1, len)
                  ELSE word_ids
    IN [word_ids |-> fitted, label_id |-> label_id]

\* ClassifierRecord::<N>::new
ClassifierRecord_new(word_ids, label_id, n) ==
    LET len == Len(word_ids)
        fitted == IF len < n THEN word_ids \o [i \in 1..(n - len) |-> 0]
                  ELSE IF len > n THEN SubSeq(word_ids, 1, n)
                  ELSE word_ids
    IN [word_ids |-> fitted, label_id |-> label_id]

\* samples_to_records::<N>: [panic, records]
samples_to_records(samples, vocab, class2id, n) ==
    IF \E i \in 1..Len(samples) : LabelId(samples[i].label, class2id).tag = "Panic"
    THEN [panic |-> TRUE, records |-> <<>>]
    ELSE [panic |-> FALSE,
          records |-> [i \in 1..Len(samples) |->
              ClassifierRecord_new(WordIds(samples[i].text, vocab),
                                   LabelId(samples[i].label, class2id).val, n)]]

\* ------------------------------------------------------------------ state
VARIABLES
    fs,             \* the dataset directory: file name -> sequence of line slots
    N,              \* the const generic N of build_dataset::<N>
    pc,             \* position in build_dataset
    class2id, vocab,
    train_samples, dev_samples, test_samples,
    train_records, dev_records, test_records,
    result,         \* what build_dataset has returned to its caller
    enc,            \* one call of samples_to_records: its arguments and its result
    iter,           \* a ClassifierIter: its reader and the item its last next() gave
    tagging         \* a TaggingIter: its reader, its last item, the samples so far

build == <<pc, class2id, vocab, train_samples, dev_samples, test_samples,
           train_records, dev_records, test_records, result>>

vars == <<fs, N, build, enc, iter, tagging>>

Idle == [tag |-> "Idle"]

\* --------------------------------------------------------- build inputs
TrainLines ==
    { OkLine(<<"a", "\t", "1", "\n">>),
      OkLine(<<"b", "a", "\t", "x", "\n">>),
      OkLine(<<"b", "\t", "0", "2", " ", "\n">>),
      OkLine(<<"a", "\n">>),
      ErrLine }

TestLines == { OkLine(<<"b", "\t", "1", "\n">>) }

ClassLines == { OkLine(<<"x", "\n">>), ErrLine }

Init ==
    /\ fs \in { [f \in {"train.txt", "dev.txt", "test.txt", "class.txt"} |->
                    CASE f = "train.txt" -> tr [] f = "dev.txt" -> dv
                      [] f = "test.txt" -> te [] f = "class.txt" -> cl] :
                tr \in SeqsUpTo(TrainLines, MaxTrainLines),
                dv \in SeqsUpTo(TrainLines, MaxEvalLines),
                te \in SeqsUpTo(TestLines, MaxEvalLines),
                cl \in SeqsUpTo(ClassLines, MaxClasses) }
    /\ N \in 1..MaxN
    /\ pc = "read_classes"
    /\ class2id = <<>>
    /\ vocab = <<>>
    /\ train_samples = <<>> /\ dev_samples = <<>> /\ test_samples = <<>>
    /\ train_records = <<>> /\ dev_records = <<>> /\ test_records = <<>>
    /\ result = None
    /\ enc = Idle /\ iter = Idle /\ tagging = Idle

\* ------------------------------------------------- build_dataset, by step
ReadClasses ==
    /\ pc = "read_classes"
    /\ class2id' = Class2Id(read_classes(fs[ClassifierDataset_new.class_file]))
    /\ pc' = "train_iter"
    /\ UNCHANGED <<fs, N, enc, iter, tagging, vocab, train_samples, dev_samples, test_samples,
                   train_records, dev_records, test_records, result>>

CollectTrain ==
    /\ pc = "train_iter"
    /\ LET c == collect(fs[ClassifierDataset_new.train_file])
       IN /\ train_samples' = c.items
          /\ pc' = IF c.panic THEN "panicked" ELSE "vocab"
    /\ UNCHANGED <<fs, N, enc, iter, tagging, class2id, vocab, dev_samples, test_samples,
                   train_records, dev_records, test_records, result>>
\* a variant that feeds the labels to the vocabulary as well
MakeVocab_with_labels ==
    /\ pc = "vocab"
    /\ vocab' = BuildVocab([i \in 1..Len(train_samples) |->
                               train_samples[i].text \o train_samples[i].label])
    /\ pc' = "train_records"
    /\ UNCHANGED <<fs, N, enc, iter, tagging, class2id, train_samples, dev_samples,
                   test_samples, train_records, dev_records, test_records, result>>

MakeVocab ==
    /\ pc = "vocab"
    /\ vocab' = BuildVocab([i \in 1..Len(train_samples) |-> train_samples[i].text])
    /\ pc' = "train_records"
    /\ UNCHANGED <<fs, N, enc, iter, tagging, class2id, train_samples, dev_samples, test_samples,
                   train_records, dev_records, test_records, result>>

EncodeTrain ==
    /\ pc = "train_records"
    /\ LET r == samples_to_records(train_samples, vocab, class2id, N)
       IN /\ train_records' = r.records
          /\ pc' = IF r.panic THEN "panicked" ELSE "dev_iter"
    /\ UNCHANGED <<fs, N, enc, iter, tagging, class2id, vocab, train_samples, dev_samples, test_samples,
                   dev_records, test_records, result>>

CollectDev ==
    /\ pc = "dev_iter"
    /\ LET c == collect(fs[ClassifierDataset_new.dev_file])
       IN /\ dev_samples' = c.items
          /\ pc' = IF c.panic THEN "panicked" ELSE "dev_records"
    /\ UNCHANGED <<fs, N, enc, iter, tagging, class2id, vocab, train_samples, test_samples,
                   train_records, dev_records, test_records, result>>

EncodeDev ==
    /\ pc = "dev_records"
    /\ LET r == samples_to_records(dev_samples, vocab, class2id, N)
       IN /\ dev_records' = r.records
          /\ pc' = IF r.panic THEN "panicked" ELSE "test_iter"
    /\ UNCHANGED <<fs, N, enc, iter, tagging, class2id, vocab, train_samples, dev_samples, test_samples,
                   train_records, test_records, result>>

CollectTest ==
    /\ pc = "test_iter"
    /\ LET c == collect(fs[ClassifierDataset_new.test_file])
       IN /\ test_samples' = c.items
          /\ pc' = IF c.panic THEN "panicked" ELSE "test_records"
    /\ UNCHANGED <<fs, N, enc, iter, tagging, class2id, vocab, train_samples, dev_samples,
                   train_records, dev_records, test_records, result>>

EncodeTest ==
    /\ pc = "test_records"
    /\ LET r == samples_to_records(test_samples, vocab, class2id, N)
       IN /\ test_records' = r.records
          /\ pc' = IF r.panic THEN "panicked" ELSE "return"
    /\ UNCHANGED <<fs, N, enc, iter, tagging, class2id, vocab, train_samples, dev_samples, test_samples,
                   train_records, dev_records, result>>

Return ==
    /\ pc = "return"
    /\ result' = Some([train |-> train_records, dev |-> dev_records,
                       test |-> test_records, vocab |-> vocab])
    /\ pc' = "done"
    /\ UNCHANGED <<fs, N, enc, iter, tagging, class2id, vocab, train_samples, dev_samples, test_samples,
                   train_records, dev_records, test_records>>

Next ==
    \/ ReadClasses \/ CollectTrain \/ MakeVocab \/ EncodeTrain
    \/ CollectDev \/ EncodeDev \/ CollectTest \/ EncodeTest \/ Return

Spec == Init /\ [][Next]_vars

\* ------------------------------------- samples_to_records on one sample
EncChars == {"a", "b"}

EncLabels ==
    { <<"1">>, <<"0", "2">>, <<"+", "1">>, <<"-", "1">>, <<"x">>, <<"y">> }

EncCorpora ==
    { <<>>, << <<"a">> >>, << <<"b", "a">> >>, << <<"a">>, <<"b", "a">> >> }

EncClassLines ==
    { OkLine(<<"x", "\n">>), OkLine(<<"y", "\n">>), OkLine(<<"1", "\n">>), ErrLine }

InitRecords ==
    /\ enc \in { [sample |-> [text |-> t, label |-> l],
                  vocab |-> BuildVocab(corpus),
                  class_file |-> cf,
                  class2id |-> Class2Id(read_classes(cf)),
                  out |-> Idle] :
                 t \in SeqsUpTo(EncChars, MaxText), l \in EncLabels,
                 corpus \in EncCorpora, cf \in SeqsUpTo(EncClassLines, MaxEncClasses) }
    /\ N \in 1..MaxN
    /\ fs = <<>>
    /\ pc = "idle"
    /\ class2id = <<>>
    /\ vocab = <<>>
    /\ train_samples = <<>> /\ dev_samples = <<>> /\ test_samples = <<>>
    /\ train_records = <<>> /\ dev_records = <<>> /\ test_records = <<>>
    /\ result = None
    /\ iter = Idle /\ tagging = Idle

Encode ==
    /\ enc # Idle
    /\ enc.out = Idle
    /\ enc' = [enc EXCEPT
                 !.out = samples_to_records(<<enc.sample>>, enc.vocab, enc.class2id, N)]
    /\ UNCHANGED <<fs, N, build, iter, tagging>>

NextRecords == Encode

SpecRecords == InitRecords /\ [][NextRecords]_vars

\* ------------------------------------------ ClassifierIter, call by call
IterChars == {"a", "\t", " "}

IterLines ==
    { OkLine(body \o term) :
        body \in SeqsUpTo(IterChars, MaxLineLen), term \in {<<"\n">>} }
    \cup { OkLine(body) : body \in SeqsUpTo(IterChars, MaxLineLen) \ {<<>>} }
    \cup { ErrLine }

\* only the last line of a file can lack its newline
WellFormedFile(file) ==
    \A k \in 1..(Len(file) - 1) :
        file[k].ok => file[k].line[Len(file[k].line)] = "\n"

InitIter ==
    /\ iter \in { [reader |-> [file |-> f, pos |-> 0], item |-> [tag |-> "Start"]] :
                  f \in { g \in SeqsUpTo(IterLines, MaxIterLines) : WellFormedFile(g) } }
    /\ N = 1
    /\ fs = <<>>
    /\ pc = "idle"
    /\ class2id = <<>>
    /\ vocab = <<>>
    /\ train_samples = <<>> /\ dev_samples = <<>> /\ test_samples = <<>>
    /\ train_records = <<>> /\ dev_records = <<>> /\ test_records = <<>>
    /\ result = None
    /\ enc = Idle /\ tagging = Idle

\* the caller (collect) stops at the first None; a panic ends the program
IterNext ==
    /\ iter # Idle
    /\ iter.item.tag \in {"Start", "Some"}
    /\ LET n == ClassifierIter_next(iter.reader)
       IN iter' = [reader |-> n.reader, item |-> n.item]
    /\ UNCHANGED <<fs, N, build, enc, tagging>>

NextIter == IterNext

SpecIter == InitIter /\ [][NextIter]_vars

\* -------------------------------------------------------------- TaggingIter
\* TaggingSample::from(Vec<String>): every line is trimmed and split at its
\* first tab; a line without a tab panics
TaggingSample_from(contents) ==
    IF \E i \in 1..Len(contents) : split_once(trim_end(contents[i]), "\t").tag = "None"
    THEN Panic
    ELSE Some([i \in 1..Len(contents) |->
                 LET sp == split_once(trim_end(contents[i]), "\t").val
                 IN <<sp.front, sp.back>>])

\* the loop of TaggingIter::next: push lines until read_line gives Ok(0);
\* Err returns None
RECURSIVE TaggingIter_loop(_, _)
TaggingIter_loop(reader, lines) ==
    LET r == read_line(reader)
    IN IF r.res = "Ok"
       THEN IF r.len = 0
            THEN [item |-> TaggingSample_from(lines), reader |-> r.reader]
            ELSE TaggingIter_loop(r.reader, Append(lines, r.line))
       ELSE [item |-> None, reader |-> r.reader]

TaggingIter_next(reader) == TaggingIter_loop(reader, <<>>)

TagLines ==
    { OkLine(<<"a", "\t", "B", "\n">>), OkLine(<<"b", "\t", "C", "\n">>),
      OkLine(<<"\n">>), ErrLine }

InitTagging ==
    /\ tagging \in { [reader |-> [file |-> f, pos |-> 0], item |-> [tag |-> "Start"],
                      at_eof |-> FALSE, calls |-> 0, yielded |-> <<>>] :
                     f \in SeqsUpTo(TagLines, MaxTagLines) }
    /\ N = 1
    /\ fs = <<>>
    /\ pc = "idle"
    /\ class2id = <<>>
    /\ vocab = <<>>
    /\ train_samples = <<>> /\ dev_samples = <<>> /\ test_samples = <<>>
    /\ train_records = <<>> /\ dev_records = <<>> /\ test_records = <<>>
    /\ result = None
    /\ enc = Idle /\ iter = Idle

\* a caller iterating until None; at_eof records whether the reader had
\* already reached end-of-file when the call was made
TaggingNext ==
    /\ tagging # Idle
    /\ tagging.item.tag \in {"Start", "Some"}
    /\ tagging.calls < MaxCalls
    /\ LET n == TaggingIter_next(tagging.reader)
       IN tagging' = [reader |-> n.reader, item |-> n.item,
                      at_eof |-> tagging.reader.pos >= Len(tagging.reader.file),
                      calls |-> tagging.calls + 1,
                      yielded |-> IF n.item.tag = "Some"
                                  THEN Append(tagging.yielded, n.item.val)
                                  ELSE tagging.yielded]
    /\ UNCHANGED <<fs, N, build, enc, iter>>

NextTagging == TaggingNext

SpecTagging == InitTagging /\ [][NextTagging]_vars

\* ------------------------------------------------------------ properties
\* index of the first tab of a line, 0 when it has none
FirstTab(l) ==
    IF \E i \in 1..Len(l) : l[i] = "\t"
    THEN CHOOSE i \in 1..Len(l) : l[i] = "\t" /\ \A j \in 1..(i - 1) : l[j] # "\t"
    ELSE 0

TextField(l) == SubSeq(l, 1, FirstTab(l) - 1)
AfterFirstTab(l) == SubSeq(l, FirstTab(l) + 1, Len(l))

\* the slots of a file in front of its first failed read: the split as read
ReadPrefix(file) ==
    LET errs == { k \in 1..Len(file) : ~file[k].ok }
    IN IF errs = {} THEN file
       ELSE SubSeq(file, 1, (CHOOSE k \in errs : \A j \in errs : k <= j) - 1)

\* l without its trailing whitespace, stated as a property of the result
Trimmed(l) ==
    CHOOSE p \in { SubSeq(l, 1, k) : k \in 0..Len(l) } :
        /\ \A i \in (Len(p) + 1)..Len(l) : l[i] \in {" ", "\t", "\n", "\r"}
        /\ (p = <<>> \/ p[Len(p)] \notin {" ", "\t", "\n", "\r"})

\* a label written as decimal digits, with an optional leading plus sign,
\* and the number it denotes
DigitsOf(label) == IF Len(label) > 1 /\ label[1] = "+" THEN Tail(label) ELSE label

IsNumber(label) ==
    /\ DigitsOf(label) # <<>>
    /\ \A i \in 1..Len(DigitsOf(label)) :
          DigitsOf(label)[i] \in {"0", "1", "2", "3", "4", "5", "6", "7", "8", "9"}

RECURSIVE PlaceValues(_, _)
PlaceValues(ds, i) ==
    IF i > Len(ds) THEN 0
    ELSE (CHOOSE d \in 0..9 : ToString(d) = ds[i]) * 10 ^ (Len(ds) - i) + PlaceValues(ds, i + 1)

NumberOf(label) == PlaceValues(DigitsOf(label), 1)

SplitFiles ==
    { ClassifierDataset_new.train_file, ClassifierDataset_new.dev_file,
      ClassifierDataset_new.test_file }

Returned == pc # "idle" /\ result.tag = "Some"

TrainStream == Flatten([i \in 1..Len(train_samples) |-> train_samples[i].text])

FirstSeen(stream, ch) ==
    CHOOSE i \in 1..Len(stream) : stream[i] = ch /\ \A j \in 1..(i - 1) : stream[j] # ch

\* C1: the returned vocabulary gives each distinct character of the training
\* texts the ID 1 + (number of distinct characters first seen before it), so
\* the IDs are exactly 1..k for k distinct characters.
C1_FirstSeenDenseIds ==
    Returned =>
        \A ch \in DOMAIN result.val.vocab :
            result.val.vocab[ch] =
                1 + Cardinality({ c \in Range(TrainStream) :
                                    FirstSeen(TrainStream, c) < FirstSeen(TrainStream, ch) })

\* C2: the keys of the returned vocabulary are exactly the characters of the
\* text fields of the training split as read (no label character, no character
\* seen only in dev or test), and every ID is at least 1.
C2_VocabKeysFromTrainTexts ==
    Returned =>
        /\ DOMAIN result.val.vocab =
               UNION { Range(TextField(sl.line)) :
                         sl \in Range(ReadPrefix(fs[ClassifierDataset_new.train_file])) }
        /\ \A ch \in DOMAIN result.val.vocab : result.val.vocab[ch] >= 1

C2_Witness ==
    /\ Returned
    /\ "a" \in DOMAIN result.val.vocab
    /\ "b" \notin DOMAIN result.val.vocab
    /\ \E i \in 1..Len(dev_samples) : "b" \in Range(dev_samples[i].text)
    /\ \E i \in 1..Len(train_samples) :
           Range(train_samples[i].label) \cap DOMAIN result.val.vocab = {}

\* the labels of the samples a split yields: what follows the first tab of
\* each line read, without trailing whitespace
SplitLabels(f) ==
    { Trimmed(AfterFirstTab(sl.line)) :
        sl \in { x \in Range(ReadPrefix(fs[f])) : FirstTab(Trimmed(x.line)) > 0 } }

Unresolvable(label) ==
    /\ ~IsNumber(label)
    /\ label \notin Range(read_classes(fs[ClassifierDataset_new.class_file]))

\* C6: when a sample of any of the three splits has a label that neither
\* parses as an integer nor is a class name, build_dataset returns nothing,
\* whatever was already encoded.
C6_InvalidLabelAborts ==
    (pc # "idle" /\ \E f \in SplitFiles : \E l \in SplitLabels(f) : Unresolvable(l))
        => result.tag = "None" /\ pc # "return" /\ pc # "done"

C6_Witness ==
    /\ pc = "panicked"
    /\ result.tag = "None"
    /\ Len(train_records) >= 1
    /\ \A l \in SplitLabels(ClassifierDataset_new.train_file) : ~Unresolvable(l)
    /\ \E l \in SplitLabels(ClassifierDataset_new.dev_file) : Unresolvable(l)

Malformed(f) ==
    \E sl \in Range(ReadPrefix(fs[f])) : FirstTab(Trimmed(sl.line)) = 0

\* C8: a failed read ends that split's samples at the last line read and the
\* build goes on (the returned split has one record per line in front of the
\* failed read, and a failed read never aborts), whereas a line without a tab
\* aborts the build.
C8_ReadErrorTruncates ==
    /\ Returned =>
          /\ Len(result.val.train) = Len(ReadPrefix(fs[ClassifierDataset_new.train_file]))
          /\ Len(result.val.dev) = Len(ReadPrefix(fs[ClassifierDataset_new.dev_file]))
          /\ Len(result.val.test) = Len(ReadPrefix(fs[ClassifierDataset_new.test_file]))
    /\ pc = "panicked" =>
          \E f \in SplitFiles :
              Malformed(f) \/ \E l \in SplitLabels(f) : Unresolvable(l)
    /\ (pc # "idle" /\ \E f \in SplitFiles :
            \E sl \in Range(ReadPrefix(fs[f])) : FirstTab(sl.line) = 0)
          => result.tag = "None" /\ pc # "return"

C8_Witness ==
    /\ Returned
    /\ LET tr == fs[ClassifierDataset_new.train_file]
           dv == fs[ClassifierDataset_new.dev_file]
       IN /\ Len(tr) = 2 /\ tr[1].ok /\ ~tr[2].ok
          /\ Len(result.val.train) = 1
          /\ Len(dv) = 1 /\ dv[1].ok
          /\ Len(result.val.dev) = 1

\* C9: the test split is read from the dev file, so the returned test records
\* equal the returned dev records, whatever test.txt holds.
C9_TestEqualsDev ==
    /\ Returned => result.val.test = result.val.dev
    /\ pc \in {"test_records", "return", "done"} =>
          test_samples = collect(fs["dev.txt"]).items

C9_Witness ==
    /\ Returned
    /\ fs["test.txt"] # fs["dev.txt"]
    /\ fs["test.txt"] # <<>>
    /\ Len(result.val.dev) >= 1
    /\ result.val.test = result.val.dev

Encoded == enc # Idle /\ enc.out # Idle

\* C3: the record has exactly N word IDs; position i holds the vocabulary ID
\* of the i-th character of the text when the text has one and it is a key of
\* the vocabulary, and 0 otherwise.
C3_PadOrTruncate ==
    (Encoded /\ ~enc.out.panic) =>
        LET w == enc.out.records[1].word_ids
            t == enc.sample.text
        IN /\ Len(enc.out.records) = 1
           /\ Len(w) = N
           /\ \A i \in 1..N :
                 w[i] = IF i <= Len(t) /\ t[i] \in DOMAIN enc.vocab
                        THEN enc.vocab[t[i]] ELSE 0

C3_Witness ==
    /\ Encoded /\ ~enc.out.panic
    /\ Len(enc.sample.text) > N
    /\ enc.sample.text[1] \in DOMAIN enc.vocab
    /\ enc.sample.text[Len(enc.sample.text)] \in DOMAIN enc.vocab
    /\ enc.vocab[enc.sample.text[1]] # enc.vocab[enc.sample.text[Len(enc.sample.text)]]
    /\ enc.out.records[1].word_ids[1] = enc.vocab[enc.sample.text[1]]

\* C4: a label that parses as a non-negative integer gives that integer as the
\* label ID, whatever the class index holds.
C4_NumericLabelWins ==
    (Encoded /\ IsNumber(enc.sample.label)) =>
        /\ ~enc.out.panic
        /\ enc.out.records[1].label_id = NumberOf(enc.sample.label)

C4_Witness ==
    /\ Encoded /\ ~enc.out.panic
    /\ IsNumber(enc.sample.label)
    /\ enc.sample.label \in DOMAIN enc.class2id
    /\ enc.class2id[enc.sample.label] # enc.out.records[1].label_id
    /\ enc.out.records[1].label_id = 1

\* the lines of the classes file that hold the label
ClassPositions ==
    { k \in 1..Len(enc.class_file) :
        enc.class_file[k].ok /\ enc.class_file[k].line = enc.sample.label \o <<"\n">> }

LastClassPosition == CHOOSE k \in ClassPositions : \A j \in ClassPositions : j <= k

IterYielded == iter # Idle /\ iter.item.tag \in {"Some", "Panic"}
IterLine == iter.reader.file[iter.reader.pos].line

WithoutNewline(l) ==
    IF l # <<>> /\ l[Len(l)] = "\n" THEN SubSeq(l, 1, Len(l) - 1) ELSE l

\* C7 as stated: a line with at least one tab yields the text before the first
\* tab and, as label, everything after it with only the newline removed; only
\* a line without any tab aborts.
C7_OnlyNewlineStripped ==
    IterYielded =>
        /\ FirstTab(IterLine) > 0 =>
              iter.item = Some([text |-> TextField(IterLine),
                                label |-> WithoutNewline(AfterFirstTab(IterLine))])
        /\ iter.item.tag = "Panic" => FirstTab(IterLine) = 0

\* C7: a line that still has a tab once its trailing whitespace is removed
\* yields the text before the first tab and, as label, everything after it
\* without trailing whitespace; a line with no tab left after that aborts.
C7_TrailingWhitespaceStripped ==
    IterYielded =>
        /\ FirstTab(Trimmed(IterLine)) > 0 =>
              iter.item = Some([text |-> TextField(IterLine),
                                label |-> Trimmed(AfterFirstTab(IterLine))])
        /\ FirstTab(Trimmed(IterLine)) = 0 => iter.item.tag = "Panic"

C7_Witness ==
    /\ IterYielded
    /\ iter.item.tag = "Some"
    /\ FirstTab(iter.item.val.label) > 0
    /\ iter.item.val.label # WithoutNewline(AfterFirstTab(IterLine))

\* the blocks of a tagging file: the maximal runs of non-blank lines, each as
\* its (token, tag) pairs
RECURSIVE Blocks(_, _)
Blocks(file, cur) ==
    IF file = <<>> THEN (IF cur = <<>> THEN <<>> ELSE <<cur>>)
    ELSE LET l == Trimmed(Head(file).line)
         IN IF l = <<>>
            THEN (IF cur = <<>> THEN <<>> ELSE <<cur>>) \o Blocks(Tail(file), <<>>)
            ELSE Blocks(Tail(file), Append(cur, <<TextField(l), AfterFirstTab(l)>>))

\* C10: TaggingIter yields one sample per block of token/tag lines, and once
\* end-of-file has been reached next() returns None.
C10_BlocksThenNone ==
    (tagging # Idle /\ tagging.calls > 0
        /\ \A k \in 1..Len(tagging.reader.file) : tagging.reader.file[k].ok) =>
        /\ tagging.item.tag # "Panic"
        /\ Len(tagging.yielded) <= Len(Blocks(tagging.reader.file, <<>>))
        /\ \A i \in 1..Len(tagging.yielded) :
              tagging.yielded[i] = Blocks(tagging.reader.file, <<>>)[i]
        /\ tagging.at_eof => tagging.item.tag = "None"

====
